---- MODULE Spec2Model ----
(***************************************************************************)
(* A model of the AccessControl grants store (lib/AccessControl.js), its   *)
(* helper library (lib/utils.js), the Access builder (core/Access.ts) and  *)
(* the query resolution used by Query / Permission.                        *)
(*                                                                         *)
(* A grants object is a map  subject -> role object.  A role object keeps  *)
(* its resources and its inheritance list (the '_extend_' key) in ONE      *)
(* JavaScript object; here it is the record                                *)
(*     [hasExt, ext, res]                                                  *)
(* where hasExt says whether the key '_extend_' is defined, ext is its     *)
(* value and res maps resource names to resource objects                   *)
(* ("action:possession" -> attribute list).  RoleKeys gives back the key   *)
(* set of the JavaScript object.  The order of the keys of an object is    *)
(* not modelled.                                                           *)
(***************************************************************************)
EXTENDS Integers, Sequences, FiniteSets, TLC

\* ------------------------------------------------------------------------
\* Names and bounds
\* ------------------------------------------------------------------------

\* The role names the calls of the model draw from.
Roles == {"a", "b", "c"}

\* The resource names the calls of the model draw from.
Resources == {"r"}

Actions == {"create", "read", "update", "delete"}

Possessions == {"own", "any"}

RESERVED_KEYWORDS == {"*", "!", "$", "_extend_"}

\* Number of API calls in one behaviour.
MaxSteps == 3

\* Longest list of names passed to one call.
MaxList == 2

\* Depth of nested getRoleHierarchyOf calls the runtime stack can hold.
StackLimit == 5

ObjIds == {"o1", "o2"}

\* ------------------------------------------------------------------------
\* Generic helpers (lib/utils.js)
\* ------------------------------------------------------------------------

\* Array.prototype.indexOf(x) >= 0
Has(arr, x) == \E i \in 1..Len(arr) : arr[i] = x

pushUniq(arr, item) == IF Has(arr, item) THEN arr ELSE Append(arr, item)

\* uniqConcat appending every item, also those the list already holds
uniqConcat_All(arrA, arrB) == arrA \o arrB

RECURSIVE uniqConcat(_, _)
uniqConcat(arrA, arrB) ==
    IF arrB = <<>> THEN arrA
    ELSE uniqConcat(pushUniq(arrA, Head(arrB)), Tail(arrB))

subtractArray(arrA, arrB) == SelectSeq(arrA, LAMBDA x : ~Has(arrB, x))

\* a map with one key added or overwritten / one key deleted
Put(f, k, v) == [x \in DOMAIN f \cup {k} |-> IF x = k THEN v ELSE f[x]]

Del(f, k) == [x \in DOMAIN f \ {k} |-> f[x]]

EmptyMap == [x \in {} |-> <<>>]

\* the object literal {} stored for a new subject
EmptyRole == [hasExt |-> FALSE, ext |-> <<>>, res |-> EmptyMap]

\* Object.keys of a role object: its resources and, when defined, '_extend_'
RoleKeys(role) == DOMAIN role.res \cup (IF role.hasExt THEN {"_extend_"} ELSE {})

validName_Lax(name) == "ok"

\* validName(name): "ok" when it returns true, else the error it throws
validName(name) ==
    IF name = "" THEN "invalid"
    ELSE IF name \in RESERVED_KEYWORDS THEN "reserved"
    ELSE "ok"

\* ------------------------------------------------------------------------
\* Role hierarchy (lib/utils.js)
\* ------------------------------------------------------------------------

\* A property name every object inherits from Object.prototype: grants[name]
\* is then a function, which is truthy and has no '_extend_', also when the
\* grants object has no key of that name.
ObjectPrototype == {"constructor"}

\* !grants[name] is false
Truthy(grants, name) == name \in DOMAIN grants \/ name \in ObjectPrototype

RECURSIVE getRoleHierarchyOf(_, _, _, _)
RECURSIVE HierarchyEach(_, _, _, _, _, _)

\* rootRole = "" stands for the omitted argument; depth counts the nested
\* calls, and a call deeper than the stack holds ends in a RangeError.
getRoleHierarchyOf(grants, subjectName, rootRole, depth) ==
    IF depth > StackLimit THEN [err |-> "overflow", roles |-> <<>>]
    ELSE IF ~Truthy(grants, subjectName) THEN [err |-> "notfound", roles |-> <<>>]
    ELSE IF subjectName \notin DOMAIN grants THEN [err |-> "ok", roles |-> <<subjectName>>]
    ELSE IF ~grants[subjectName].hasExt \/ Len(grants[subjectName].ext) = 0
         THEN [err |-> "ok", roles |-> <<subjectName>>]
    ELSE HierarchyEach(grants, subjectName, rootRole, depth, 1, <<subjectName>>)

\* the forEach over subject._extend_
HierarchyEach(grants, subjectName, rootRole, depth, i, arr) ==
    IF i > Len(grants[subjectName].ext) THEN [err |-> "ok", roles |-> arr]
    ELSE LET exRoleName == grants[subjectName].ext[i] IN
         IF ~Truthy(grants, exRoleName) THEN [err |-> "notfound", roles |-> <<>>]
         ELSE IF exRoleName = subjectName THEN [err |-> "self", roles |-> <<>>]
         ELSE IF rootRole # "" /\ rootRole = exRoleName THEN [err |-> "cross", roles |-> <<>>]
         ELSE LET ext == getRoleHierarchyOf(grants, exRoleName,
                            IF rootRole # "" THEN rootRole ELSE subjectName, depth + 1)
              IN  IF ext.err # "ok" THEN ext
                  ELSE HierarchyEach(grants, subjectName, rootRole, depth, i + 1,
                                     uniqConcat(arr, ext.roles))

RECURSIVE FlatRolesEach(_, _, _, _)
FlatRolesEach(grants, arrRoles, i, arr) ==
    IF i > Len(arrRoles) THEN [err |-> "ok", roles |-> arr]
    ELSE LET h == getRoleHierarchyOf(grants, arrRoles[i], "", 1) IN
         IF h.err # "ok" THEN h
         ELSE FlatRolesEach(grants, arrRoles, i + 1, uniqConcat(arr, h.roles))

\* getFlatRoles taking every role of the grants object into the list
getFlatRoles_Every(grants, subjects) ==
    IF Len(subjects) = 0 THEN [err |-> "invalid", roles |-> <<>>]
    ELSE [err |-> "ok",
          roles |-> uniqConcat(subjects,
                        SelectSeq(<<"a", "b", "c">>, LAMBDA n : n \in DOMAIN grants))]

\* getFlatRoles leaving the inherited roles out
getFlatRoles_Own(grants, subjects) ==
    IF Len(subjects) = 0 THEN [err |-> "invalid", roles |-> <<>>]
    ELSE [err |-> "ok", roles |-> uniqConcat(<<>>, subjects)]

getFlatRoles(grants, subjects) ==
    IF Len(subjects) = 0 THEN [err |-> "invalid", roles |-> <<>>]
    ELSE FlatRolesEach(grants, subjects, 1, uniqConcat(<<>>, subjects))

getNonExistentRoles(grants, subjects) ==
    SelectSeq(subjects, LAMBDA s : s \notin DOMAIN grants)

RECURSIVE CrossEach_Blind(_, _, _, _)
\* the loop of getCrossExtendingRole taking every extender for harmless
CrossEach_Blind(grants, subjectName, extenders, i) ==
    IF i > Len(extenders) THEN [err |-> "ok", role |-> ""]
    ELSE IF subjectName = extenders[i] THEN [err |-> "ok", role |-> ""]
    ELSE CrossEach_Blind(grants, subjectName, extenders, i + 1)

RECURSIVE CrossEach(_, _, _, _)
\* the loop of getCrossExtendingRole; role = "" stands for null
CrossEach(grants, subjectName, extenders, i) ==
    IF i > Len(extenders) THEN [err |-> "ok", role |-> ""]
    ELSE LET e == extenders[i] IN
         IF subjectName = e THEN [err |-> "ok", role |-> ""]
         ELSE LET inheritedByExtender == getRoleHierarchyOf(grants, e, "", 1) IN
              IF inheritedByExtender.err # "ok"
              THEN [err |-> inheritedByExtender.err, role |-> ""]
              ELSE IF Has(inheritedByExtender.roles, subjectName)
                   THEN [err |-> "ok", role |-> e]
                   ELSE CrossEach(grants, subjectName, extenders, i + 1)

\* getCrossExtendingRole finding no cross-inheritance at all
getCrossExtendingRole_None(grants, subjectName, extenderRoles) ==
    [err |-> "ok", role |-> ""]

getCrossExtendingRole(grants, subjectName, extenderRoles) ==
    CrossEach(grants, subjectName, extenderRoles, 1)

\* ------------------------------------------------------------------------
\* Writes to the grants object (lib/utils.js)
\*
\* The operators that write take the content of a grants object and whether
\* the object is frozen (Object.freeze, set by deepFreeze), and return the
\* error they end with ("ok": none) and the content they leave behind. The
\* library runs in strict mode, so a write to a frozen object throws a
\* TypeError and writes nothing.
\* ------------------------------------------------------------------------

RECURSIVE ExtendEach_Replacing(_, _, _, _, _, _)
\* the forEach of extendRole putting the extenders in the place of the list
\* also when replace is false
ExtendEach_Replacing(grants, fz, subjects, arrExtRoles, replace, i) ==
    IF i > Len(subjects) THEN [err |-> "ok", g |-> grants]
    ELSE LET subjectName == subjects[i] IN
         IF subjectName \notin DOMAIN grants THEN [err |-> "notfound", g |-> grants]
         ELSE IF Has(arrExtRoles, subjectName) THEN [err |-> "self", g |-> grants]
         ELSE IF fz THEN [err |-> "TypeError", g |-> grants]
         ELSE ExtendEach_Replacing(
                  [grants EXCEPT ![subjectName] =
                      [@ EXCEPT !.hasExt = TRUE, !.ext = arrExtRoles]],
                  fz, subjects, arrExtRoles, replace, i + 1)

RECURSIVE ExtendEach(_, _, _, _, _, _)
\* the forEach over the subjects in extendRole (for a name the grants object
\* only inherits, r is the inherited function and the list is written to it,
\* not to the grants object)
ExtendEach(grants, fz, subjects, arrExtRoles, replace, i) ==
    IF i > Len(subjects) THEN [err |-> "ok", g |-> grants]
    ELSE LET subjectName == subjects[i] IN
         IF ~Truthy(grants, subjectName) THEN [err |-> "notfound", g |-> grants]
         ELSE IF Has(arrExtRoles, subjectName) THEN [err |-> "self", g |-> grants]
         ELSE LET crossInherited == getCrossExtendingRole(grants, subjectName, arrExtRoles) IN
              IF crossInherited.err # "ok" THEN [err |-> crossInherited.err, g |-> grants]
              ELSE IF crossInherited.role # "" THEN [err |-> "cross", g |-> grants]
              ELSE IF validName(subjectName) # "ok"
                   THEN [err |-> validName(subjectName), g |-> grants]
              ELSE IF subjectName \notin DOMAIN grants
                   THEN ExtendEach(grants, fz, subjects, arrExtRoles, replace, i + 1)
              ELSE IF fz THEN [err |-> "TypeError", g |-> grants]
              ELSE LET r == grants[subjectName]
                       list == IF ~replace
                               THEN uniqConcat(IF r.hasExt THEN r.ext ELSE <<>>, arrExtRoles)
                               ELSE arrExtRoles
                   IN  ExtendEach(
                           [grants EXCEPT ![subjectName] =
                               [r EXCEPT !.hasExt = TRUE, !.ext = list]],
                           fz, subjects, arrExtRoles, replace, i + 1)

extendRole(grants, fz, subjects, extenderRoles, replace) ==
    IF Len(subjects) = 0 THEN [err |-> "invalid", g |-> grants]
    ELSE IF Len(extenderRoles) = 0 THEN [err |-> "ok", g |-> grants]
    ELSE IF Len(getNonExistentRoles(grants, extenderRoles)) > 0
         THEN [err |-> "notfound", g |-> grants]
    ELSE ExtendEach(grants, fz, subjects, extenderRoles, replace, 1)

\* preCreateRoles validating the names and creating no entry
PreCreateEach_Lazy(grants, fz, subjects, i) ==
    IF \E k \in 1..Len(subjects) : validName(subjects[k]) # "ok"
    THEN [err |-> "invalid", g |-> grants]
    ELSE [err |-> "ok", g |-> grants]

RECURSIVE PreCreateEach(_, _, _, _)
PreCreateEach(grants, fz, subjects, i) ==
    IF i > Len(subjects) THEN [err |-> "ok", g |-> grants]
    ELSE LET subject == subjects[i] IN
         IF validName(subject) # "ok" THEN [err |-> validName(subject), g |-> grants]
         ELSE IF subject \in DOMAIN grants THEN PreCreateEach(grants, fz, subjects, i + 1)
         ELSE IF fz THEN [err |-> "TypeError", g |-> grants]
         ELSE PreCreateEach(Put(grants, subject, EmptyRole), fz, subjects, i + 1)

preCreateRoles(grants, fz, subjects) ==
    IF Len(subjects) = 0 THEN [err |-> "invalid", g |-> grants]
    ELSE PreCreateEach(grants, fz, subjects, 1)

\* An optional argument or draft field: def = FALSE stands for undefined.
Undefined == [def |-> FALSE, val |-> <<>>]

Some(v) == [def |-> TRUE, val |-> v]

\* utils.isFilledStringArray on a list of names
isFilledStringArray(arr) == \A i \in 1..Len(arr) : arr[i] # ""

\* normalizeAccessInfo(access, false): the error, and the subject, resource
\* and attribute lists of the normalized clone
normalizeAccessInfo(access) ==
    LET subject  == IF access.subject.def THEN access.subject.val ELSE <<>>
        resource == IF access.resource.def THEN access.resource.val ELSE <<>>
        attributes ==
            IF access.denied \/ (access.attributes.def /\ Len(access.attributes.val) = 0)
            THEN <<>>
            ELSE IF ~access.attributes.def THEN <<"*">> ELSE access.attributes.val
    IN  [err |-> IF Len(subject) = 0 \/ ~isFilledStringArray(subject) THEN "invalid"
                 ELSE IF Len(resource) = 0 \/ ~isFilledStringArray(resource) THEN "invalid"
                 ELSE "ok",
         subject |-> subject, resource |-> resource, attributes |-> attributes]

RECURSIVE CommitResources_All(_, _, _, _, _, _, _)
\* the inner forEach of commitToGrants storing ['*'] for an empty list
CommitResources_All(grants, fz, subject, resources, ap, attributes, j) ==
    IF j > Len(resources) THEN [err |-> "ok", g |-> grants]
    ELSE LET res == resources[j] IN
         IF validName(res) # "ok" THEN [err |-> validName(res), g |-> grants]
         ELSE IF fz THEN [err |-> "TypeError", g |-> grants]
         ELSE LET grantItem == grants[subject]
                  old == IF res \in DOMAIN grantItem.res THEN grantItem.res[res] ELSE EmptyMap
                  stored == IF attributes = <<>> THEN <<"*">> ELSE attributes
              IN  CommitResources_All(
                      [grants EXCEPT ![subject] =
                          [grantItem EXCEPT !.res = Put(grantItem.res, res, Put(old, ap, stored))]],
                      fz, subject, resources, ap, attributes, j + 1)

RECURSIVE CommitResources_Fresh(_, _, _, _, _, _, _)
\* the inner forEach storing a new resource object with the one key
CommitResources_Fresh(grants, fz, subject, resources, ap, attributes, j) ==
    IF j > Len(resources) THEN [err |-> "ok", g |-> grants]
    ELSE LET res == resources[j] IN
         IF validName(res) # "ok" THEN [err |-> validName(res), g |-> grants]
         ELSE IF fz THEN [err |-> "TypeError", g |-> grants]
         ELSE LET grantItem == grants[subject]
              IN  CommitResources_Fresh(
                      [grants EXCEPT ![subject] =
                          [grantItem EXCEPT !.res = Put(grantItem.res, res, Put(EmptyMap, ap, attributes))]],
                      fz, subject, resources, ap, attributes, j + 1)

RECURSIVE CommitResources(_, _, _, _, _, _, _)
\* the inner forEach of commitToGrants, over the resources of one subject
CommitResources(grants, fz, subject, resources, ap, attributes, j) ==
    IF j > Len(resources) THEN [err |-> "ok", g |-> grants]
    ELSE LET res == resources[j] IN
         IF validName(res) # "ok" THEN [err |-> validName(res), g |-> grants]
         ELSE IF fz THEN [err |-> "TypeError", g |-> grants]
         ELSE LET grantItem == grants[subject]
                  old == IF res \in DOMAIN grantItem.res THEN grantItem.res[res] ELSE EmptyMap
              IN  CommitResources(
                      [grants EXCEPT ![subject] =
                          [grantItem EXCEPT !.res = Put(grantItem.res, res, Put(old, ap, attributes))]],
                      fz, subject, resources, ap, attributes, j + 1)

RECURSIVE CommitSubjects(_, _, _, _, _, _, _)
\* the outer forEach of commitToGrants, over the subjects
CommitSubjects(grants, fz, subjects, resources, ap, attributes, i) ==
    IF i > Len(subjects) THEN [err |-> "ok", g |-> grants]
    ELSE LET subject == subjects[i] IN
         IF validName(subject) # "ok" THEN [err |-> validName(subject), g |-> grants]
         ELSE IF subject \notin DOMAIN grants /\ fz THEN [err |-> "TypeError", g |-> grants]
         ELSE LET g1 == IF subject \in DOMAIN grants THEN grants
                        ELSE Put(grants, subject, EmptyRole)
                  done == CommitResources(g1, fz, subject, resources, ap, attributes, 1)
              IN  IF done.err # "ok" THEN done
                  ELSE CommitSubjects(done.g, fz, subjects, resources, ap, attributes, i + 1)

\* commitToGrants writing to a frozen object as to any other
commitToGrants_Unfrozen(grants, fz, access) ==
    LET n == normalizeAccessInfo(access) IN
    IF n.err # "ok" THEN [err |-> n.err, g |-> grants]
    ELSE CommitSubjects(grants, FALSE, n.subject, n.resource,
                        access.action \o ":" \o access.possession, n.attributes, 1)

\* commitToGrants(grants, access, false), access with action and possession set
commitToGrants(grants, fz, access) ==
    LET n == normalizeAccessInfo(access) IN
    IF n.err # "ok" THEN [err |-> n.err, g |-> grants]
    ELSE CommitSubjects(grants, fz, n.subject, n.resource,
                        access.action \o ":" \o access.possession, n.attributes, 1)

\* ------------------------------------------------------------------------
\* Query resolution (lib/utils.js, core/Permission)
\* ------------------------------------------------------------------------

\* Notation.Glob.union on the attribute lists of the model, which hold no
\* negated globs: the globs of both lists, each once.
GlobUnion(attrsA, attrsB) ==
    IF attrsA = <<>> THEN attrsB
    ELSE IF attrsB = <<>> THEN attrsA
    ELSE uniqConcat(attrsA, attrsB)

\* the lookup taking an empty list for a missing one
LookupAttrs_EmptyFalls(resource, action, possession) ==
    IF (action \o ":" \o possession) \in DOMAIN resource
       /\ resource[action \o ":" \o possession] # <<>>
    THEN resource[action \o ":" \o possession]
    ELSE IF (action \o ":any") \in DOMAIN resource THEN resource[action \o ":any"]
    ELSE <<>>

\* the lookup falling back to the other possession, whichever was asked
LookupAttrs_EitherWay(resource, action, possession) ==
    IF (action \o ":" \o possession) \in DOMAIN resource
    THEN resource[action \o ":" \o possession]
    ELSE IF (action \o ":any") \in DOMAIN resource THEN resource[action \o ":any"]
    ELSE IF (action \o ":own") \in DOMAIN resource THEN resource[action \o ":own"]
    ELSE <<>>

\* the lookup without the fallback to action:any
LookupAttrs_NoFallback(resource, action, possession) ==
    IF (action \o ":" \o possession) \in DOMAIN resource
    THEN resource[action \o ":" \o possession]
    ELSE <<>>

\* resource[action:possession] || resource[action:any] || []  (a list, also
\* an empty one, is truthy)
LookupAttrs(resource, action, possession) ==
    IF (action \o ":" \o possession) \in DOMAIN resource
    THEN resource[action \o ":" \o possession]
    ELSE IF (action \o ":any") \in DOMAIN resource THEN resource[action \o ":any"]
    ELSE <<>>

RECURSIVE AttrsList(_, _, _, _, _, _)
\* the forEach of getUnionAttrsOfRoles: the lists pushed to attrsList (a
\* name the grants object only inherits has none of the model's resources)
AttrsList(grants, subjects, resource, action, possession, i) ==
    IF i > Len(subjects) THEN <<>>
    ELSE LET subject == IF subjects[i] \in DOMAIN grants THEN grants[subjects[i]]
                        ELSE EmptyRole
             rest == AttrsList(grants, subjects, resource, action, possession, i + 1)
         IN  IF resource \in DOMAIN subject.res
             THEN <<LookupAttrs(subject.res[resource], action, possession)>> \o rest
             ELSE IF resource = "_extend_" /\ subject.hasExt
                  THEN <<(<<>>)>> \o rest
                  ELSE rest

UnionAll_First(attrs, attrsList, i) == attrs

RECURSIVE UnionAll(_, _, _)
\* the while loop of getUnionAttrsOfRoles: the union of attrs and the lists
\* from the i-th on
UnionAll(attrs, attrsList, i) ==
    IF i > Len(attrsList) THEN attrs
    ELSE UnionAll(GlobUnion(attrs, attrsList[i]), attrsList, i + 1)

\* getUnionAttrsOfRoles(grants, {subject, resource, action, possession})
getUnionAttrsOfRoles(grants, subject, resource, action, possession) ==
    IF ~isFilledStringArray(subject) \/ resource = ""
    THEN [err |-> "invalid", attrs |-> <<>>]
    ELSE LET subjects == getFlatRoles(grants, subject) IN
         IF subjects.err # "ok" THEN [err |-> subjects.err, attrs |-> <<>>]
         ELSE LET attrsList == AttrsList(grants, subjects.roles, resource, action, possession, 1)
              IN  [err |-> "ok",
                   attrs |-> IF Len(attrsList) > 0
                             THEN UnionAll(attrsList[1], attrsList, 2)
                             ELSE <<>>]

\* Permission.granted
Granted(attributes) == Len(attributes) > 0

\* can(subject).<action><Possession>(resource): the attributes of the
\* Permission, resolved on the grants g
Query(g, subject, resource, action, possession) ==
    getUnionAttrsOfRoles(g, <<subject>>, resource, action, possession)

\* ------------------------------------------------------------------------
\* State
\* ------------------------------------------------------------------------

VARIABLES
    heap,       \* the content of each grants object
    frozen,     \* the grants objects deepFreeze has frozen
    acRef,      \* AccessControl._grants: the object that is the store
    locked,     \* AccessControl._isLocked
    access,     \* the Access builder last handed out (its _grants, and its draft _)
    last,       \* the last call: its name and how it ended
    steps,      \* number of calls made
    prior,      \* the Access builder handed out before access, where the caller kept it
    record,     \* whose draft _ is the record object the caller passed
    notified    \* the last call ran the store callback after its writes

vars == <<heap, frozen, acRef, locked, access, last, steps, prior, record, notified>>

\* the store: the content of ac._grants
Store == heap[acRef]

\* AccessControl.isLocked
isLocked == locked /\ acRef \in frozen

EmptyGrants == [x \in {} |-> EmptyRole]

NoAccess == [live |-> FALSE, ref |-> "o1", denied |-> FALSE,
             subject |-> Undefined, resource |-> Undefined, attributes |-> Undefined]

\* A grants object nothing refers to any longer is collected: its slot is
\* empty and not frozen.
Collect(h, ref, acc) ==
    [o \in ObjIds |-> IF o = ref \/ (acc.live /\ acc.ref = o) \/ (prior.live /\ prior.ref = o)
                      THEN h[o] ELSE EmptyGrants]

\* the slot for a new object that becomes the store: the builder keeps the
\* object it was made with
NewRef == IF access.live /\ access.ref = acRef
          THEN CHOOSE o \in ObjIds : o # acRef
          ELSE acRef

RECURSIVE SeqsOfLen(_, _)
SeqsOfLen(S, n) ==
    IF n = 0 THEN {<<>>}
    ELSE {Append(s, x) : s \in SeqsOfLen(S, n - 1), x \in S}

\* the lists of 1..MaxList names of S
NameLists(S) == UNION {SeqsOfLen(S, n) : n \in 1..MaxList}

Singles(S) == {<<x>> : x \in S}

\* the lists of NameLists(S) that name no role twice
DistinctLists(S) ==
    {l \in NameLists(S) : \A i \in 1..Len(l), j \in 1..Len(l) : l[i] = l[j] => i = j}

\* ------------------------------------------------------------------------
\* Bulk load (lib/utils.js)
\* ------------------------------------------------------------------------

\* The keys of a nested mapping handed to setGrants, in the order the
\* mapping lists them (every mapping of the model lists them in this order).
NameOrder == <<"a", "b", "c", "d", "*">>

KeysOf(o) == SelectSeq(NameOrder, LAMBDA n : n \in DOMAIN o)

\* validResourceObject(o): every key of the resource object holds an empty
\* list or a list of non-empty strings
validResourceObject(o) == \A action \in DOMAIN o : isFilledStringArray(o[action])

\* validRoleObject(grants, subjectName): the resources of the subject, then
\* its '_extend_' list, which is applied with extendRole
validRoleObject(grants, fz, subjectName) ==
    LET subject == grants[subjectName] IN
    IF \E resourceName \in DOMAIN subject.res : validName(resourceName) # "ok"
    THEN [err |-> "reserved", g |-> grants]
    ELSE IF \E resourceName \in DOMAIN subject.res : ~validResourceObject(subject.res[resourceName])
    THEN [err |-> "invalid", g |-> grants]
    ELSE IF ~subject.hasExt THEN [err |-> "ok", g |-> grants]
    ELSE IF ~isFilledStringArray(subject.ext) THEN [err |-> "invalid", g |-> grants]
    ELSE extendRole(grants, fz, <<subjectName>>, subject.ext, FALSE)

RECURSIVE InspectEach(_, _, _, _)
InspectEach(o, fz, keys, i) ==
    IF i > Len(keys) THEN [err |-> "ok", g |-> o]
    ELSE IF validName(keys[i]) # "ok" THEN [err |-> validName(keys[i]), g |-> o]
    ELSE LET v == validRoleObject(o, fz, keys[i]) IN
         IF v.err # "ok" THEN v ELSE InspectEach(v.g, fz, keys, i + 1)

\* getInspectedGrants(o) for a nested mapping o: o itself, inspected in place
getInspectedGrants(o, fz) == InspectEach(o, fz, KeysOf(o), 1)

normalizeActionPossession_Own(item) ==
    IF item.possession.def /\ item.possession.val # ""
    THEN IF item.possession.val \notin {"any", "own"}
         THEN [err |-> "possession", possession |-> ""]
         ELSE [err |-> "ok", possession |-> item.possession.val]
    ELSE [err |-> "ok", possession |-> "own"]

\* normalizeActionPossession on a record whose action holds no ':': the
\* possession of the record, "any" when it has none
normalizeActionPossession(item) ==
    IF item.possession.def /\ item.possession.val # ""
    THEN IF item.possession.val \notin {"any", "own"}
         THEN [err |-> "possession", possession |-> ""]
         ELSE [err |-> "ok", possession |-> item.possession.val]
    ELSE [err |-> "ok", possession |-> "any"]

RECURSIVE CommitList(_, _, _)
\* getInspectedGrants(o) for a list o: every record committed to a new {}
CommitList(grants, list, i) ==
    IF i > Len(list) THEN [err |-> "ok", g |-> grants]
    ELSE LET item == list[i]
             n == normalizeAccessInfo(item)
             ap == normalizeActionPossession(item)
         IN  IF n.err # "ok" THEN [err |-> n.err, g |-> grants]
             ELSE IF ap.err # "ok" THEN [err |-> ap.err, g |-> grants]
             ELSE LET c == commitToGrants(grants, FALSE,
                               [item EXCEPT !.possession = ap.possession])
                  IN  IF c.err # "ok" THEN c ELSE CommitList(c.g, list, i + 1)

getInspectedGrantsList(list) == CommitList(EmptyGrants, list, 1)

\* ------------------------------------------------------------------------
\* The methods of AccessControl (lib/AccessControl.js) and of Access
\* (core/Access.ts).  Each gives the state the call leaves behind and the
\* error it ends with ("ok": it returned).
\* ------------------------------------------------------------------------

Result(err, h, fz, ref, lk, acc) ==
    [err |-> err, heap |-> Collect(h, ref, acc), frozen |-> fz, acRef |-> ref,
     locked |-> lk, access |-> acc]

\* the call threw before it wrote anything
Thrown(err) == Result(err, heap, frozen, acRef, locked, access)

\* the call ended with err and left content g in the grants object ref
Wrote(err, ref, g) ==
    Result(err, [heap EXCEPT ![ref] = g], frozen, acRef, locked, access)

Replaced_Over(g) ==
    Result("ok",
           [heap EXCEPT ![acRef] = [s \in DOMAIN g \cup DOMAIN heap[acRef] |->
                                        IF s \in DOMAIN g THEN g[s] ELSE heap[acRef][s]]],
           frozen, acRef, locked, access)

\* this._grants = g, a new object
Replaced(g) ==
    Result("ok", [heap EXCEPT ![NewRef] = g], frozen, NewRef, locked, access)

\* setGrants keeping what the inspection left behind, also when it threw
setGrants_Kept(grantsObject) ==
    IF isLocked THEN Thrown("locked")
    ELSE LET inspected == getInspectedGrants(grantsObject, FALSE) IN
         Result(inspected.err, [heap EXCEPT ![NewRef] = inspected.g],
                frozen, NewRef, locked, access)

setGrants(grantsObject) ==
    IF isLocked THEN Thrown("locked")
    ELSE LET inspected == getInspectedGrants(grantsObject, FALSE) IN
         IF inspected.err # "ok" THEN Thrown(inspected.err)
         ELSE Replaced(inspected.g)

\* setGrants(v) for a v that is neither an object nor an array
setGrantsScalar == IF isLocked THEN Thrown("locked") ELSE Thrown("invalid")

setGrantsList(list) ==
    IF isLocked THEN Thrown("locked")
    ELSE LET inspected == getInspectedGrantsList(list) IN
         IF inspected.err # "ok" THEN Thrown(inspected.err)
         ELSE Replaced(inspected.g)

reset == IF isLocked THEN Thrown("locked") ELSE Replaced(EmptyGrants)

lockAC_Empty ==
    Result("ok", heap, IF isLocked THEN frozen ELSE frozen \cup {acRef},
           acRef, TRUE, access)

lockAC_Once ==
    IF DOMAIN Store = {} THEN Thrown("emptylock")
    ELSE IF isLocked THEN Thrown("locked")
    ELSE Result("ok", heap, frozen \cup {acRef}, acRef, TRUE, access)

\* utils.lockAC(ac)
lockAC ==
    IF DOMAIN Store = {} THEN Thrown("emptylock")
    ELSE Result("ok", heap, IF isLocked THEN frozen ELSE frozen \cup {acRef},
                acRef, TRUE, access)

lock == lockAC

AC_extendRole(subjects, extenderRoles, replace) ==
    IF isLocked THEN Thrown("locked")
    ELSE LET r == extendRole(Store, acRef \in frozen, subjects, extenderRoles, replace)
         IN  Wrote(r.err, acRef, r.g)

RECURSIVE RemoveEach(_, _, _)
\* the forEach of removeRoles: a name that is not in the store ends it
RemoveEach(grants, subjectsToRemove, i) ==
    IF i > Len(subjectsToRemove) THEN [err |-> "ok", g |-> grants]
    ELSE IF subjectsToRemove[i] \notin DOMAIN grants THEN [err |-> "notfound", g |-> grants]
    ELSE RemoveEach(Del(grants, subjectsToRemove[i]), subjectsToRemove, i + 1)

\* the eachRole of removeRoles: the removed names leave every _extend_ list
PruneExtends(grants, subjectsToRemove) ==
    [s \in DOMAIN grants |->
        IF grants[s].hasExt
        THEN [grants[s] EXCEPT !.ext = subtractArray(grants[s].ext, subjectsToRemove)]
        ELSE grants[s]]

\* removeRoles without the isLocked test
removeRoles_Unguarded(subjects) ==
    IF Len(subjects) = 0 \/ ~isFilledStringArray(subjects) THEN Thrown("invalid")
    ELSE LET removed == RemoveEach(Store, subjects, 1) IN
         IF removed.err # "ok" THEN Wrote(removed.err, acRef, removed.g)
         ELSE Wrote("ok", acRef, PruneExtends(removed.g, subjects))

removeRoles(subjects) ==
    IF isLocked THEN Thrown("locked")
    ELSE IF Len(subjects) = 0 \/ ~isFilledStringArray(subjects) THEN Thrown("invalid")
    ELSE LET removed == RemoveEach(Store, subjects, 1) IN
         IF removed.err # "ok" THEN Wrote(removed.err, acRef, removed.g)
         ELSE Wrote("ok", acRef, PruneExtends(removed.g, subjects))

\* removeRoles of the TypeScript source of the facade (AccessControl.ts):
\* its eachRole prunes the key '$extend', which no role object has as a
\* list, so the '_extend_' lists stay as they are
removeRolesTS(subjects) ==
    IF isLocked THEN Thrown("locked")
    ELSE IF Len(subjects) = 0 \/ ~isFilledStringArray(subjects) THEN Thrown("invalid")
    ELSE LET removed == RemoveEach(Store, subjects, 1) IN
         Wrote(removed.err, acRef, removed.g)

\* delete grants[subject][resource], for a key eachRoleResource passes
DeleteKey(role, key) ==
    IF key = "_extend_" THEN [role EXCEPT !.hasExt = FALSE, !.ext = <<>>]
    ELSE [role EXCEPT !.res = Del(role.res, key)]

RECURSIVE DeleteKeys(_, _)
DeleteKeys(role, keys) ==
    IF keys = {} THEN role
    ELSE LET k == CHOOSE k \in keys : TRUE IN DeleteKeys(DeleteKey(role, k), keys \ {k})

\* _removePermission(resources, subjects) without an actionPossession
removePermission(grants, resources, subjects) ==
    IF Len(resources) = 0 \/ ~isFilledStringArray(resources)
    THEN [err |-> "invalid", g |-> grants]
    ELSE IF subjects.def /\ (Len(subjects.val) = 0 \/ ~isFilledStringArray(subjects.val))
    THEN [err |-> "invalid", g |-> grants]
    ELSE [err |-> "ok",
          g |-> [s \in DOMAIN grants |->
                    IF ~subjects.def \/ Has(subjects.val, s)
                    THEN DeleteKeys(grants[s],
                                    {k \in RoleKeys(grants[s]) : Has(resources, k)})
                    ELSE grants[s]]]

removeResources(resources, subjects) ==
    IF isLocked THEN Thrown("locked")
    ELSE LET r == removePermission(Store, resources, subjects) IN
         Wrote(r.err, acRef, r.g)

\* utils.getResources(grants): the keys eachRoleResource passes, as a set
getResources(grants) == UNION {RoleKeys(grants[s]) : s \in DOMAIN grants}

\* AccessControl.hasResource(resource) for a string
hasResource(resource) == resource # "" /\ resource \in getResources(Store)

\* can(subject).<action><Possession>(resource), query and permission: the
\* Permission reads the grants object and writes to the Query's own record
AC_can(subject, resource, action, possession) ==
    Thrown(getUnionAttrsOfRoles(Store, subject, resource, action, possession).err)

\* AccessControl.hasRole(subject) and getRoles(): hasOwnProperty, Object.keys
AC_hasRole(subject) == Thrown("ok")

\* AccessControl.getResources() and hasResource(resource): eachRoleResource
\* reads the keys, neither call throws
AC_hasResource(resource) == Thrown("ok")

\* getInheritedRolesOf with shift() applied to the list the subject stores
getInheritedRolesOf_Stored(subject) ==
    IF subject \in DOMAIN Store /\ Store[subject].hasExt /\ Store[subject].ext # <<>>
    THEN Wrote("ok", acRef, [Store EXCEPT ![subject].ext = Tail(@)])
    ELSE Thrown("notfound")

\* AccessControl.getInheritedRolesOf(subject): shift() removes the subject
\* from the list getRoleHierarchyOf built
getInheritedRolesOf(subject) ==
    Thrown(getRoleHierarchyOf(Store, subject, "", 1).err)

\* new Access(ac, subject, denied) with a name or a list of names
NewAccess(subject, denied) ==
    LET r == preCreateRoles(Store, acRef \in frozen, subject) IN
    IF r.err # "ok" THEN Wrote(r.err, acRef, r.g)
    ELSE Result("ok", [heap EXCEPT ![acRef] = r.g], frozen, acRef, locked,
                [live |-> TRUE, ref |-> acRef, denied |-> denied,
                 subject |-> Some(subject), resource |-> Undefined,
                 attributes |-> Undefined])

grant(subject) == IF isLocked THEN Thrown("locked") ELSE NewAccess(subject, FALSE)

deny(subject) == IF isLocked THEN Thrown("locked") ELSE NewAccess(subject, TRUE)

\* the record object of a draft: what the caller holds after passing it
DraftOf(b) == [subject |-> b.subject, resource |-> b.resource, attributes |-> b.attributes]

\* new Access(ac, info, denied) with a record object that names a subject and
\* a resource and no action: info.denied = denied, this._ =
\* resetAttributes(info), and nothing is committed (isInfoFulfilled is false)
NewAccessInfo(info, denied) ==
    Result("ok", heap, frozen, acRef, locked,
           [live |-> TRUE, ref |-> acRef, denied |-> denied,
            subject |-> info.subject, resource |-> info.resource,
            attributes |-> IF denied THEN Some(<<>>)
                           ELSE IF info.attributes.def /\ info.attributes.val # <<>>
                                THEN info.attributes
                                ELSE Some(<<"*">>)])

\* AccessControl.grant(info) and deny(info)
grantInfo(info, denied) ==
    IF isLocked THEN Thrown("locked") ELSE NewAccessInfo(info, denied)

\* Access.grant(subject) and Access.deny(subject) with a name or a list:
\* new Access(this._ac, subject, denied).attributes(['*'] or [])
Access_grant(subject, denied) ==
    LET r == NewAccess(subject, denied) IN
    IF r.err # "ok" THEN r
    ELSE [r EXCEPT !.access.attributes = Some(IF denied THEN <<>> ELSE <<"*">>)]

\* Access.grant(info) and Access.deny(info) with a record object
Access_grantInfo(info, denied) ==
    LET r == NewAccessInfo(info, denied) IN
    [r EXCEPT !.access.attributes = Some(IF denied THEN <<>> ELSE <<"*">>)]

\* Access.subject(value)
Access_subject(value) ==
    LET r == preCreateRoles(heap[access.ref], access.ref \in frozen, value) IN
    IF r.err # "ok" THEN Wrote(r.err, access.ref, r.g)
    ELSE Result("ok", [heap EXCEPT ![access.ref] = r.g], frozen, acRef, locked,
                [access EXCEPT !.subject = Some(value)])

\* Access.extend(subjects)
Access_extend(subjects) ==
    LET r == extendRole(heap[access.ref], access.ref \in frozen,
                        IF access.subject.def THEN access.subject.val ELSE <<>>,
                        subjects, FALSE)
    IN  Wrote(r.err, access.ref, r.g)

\* Access.lock()
Access_lock == lockAC

\* Access.attributes(value)
Access_attributes(value) ==
    Result("ok", heap, frozen, acRef, locked, [access EXCEPT !.attributes = Some(value)])

\* _prepareAndCommit leaving the attributes on the draft and committing them
\* again when it is called without attributes
prepareAndCommit_Keeping(action, possession, resource, attributes) ==
    LET draft == [access EXCEPT
                     !.resource = IF resource.def THEN resource ELSE @,
                     !.attributes = IF access.denied THEN Some(<<>>)
                                    ELSE IF attributes.def THEN attributes
                                    ELSE IF access.attributes.def THEN access.attributes
                                    ELSE Some(<<"*">>)]
        r == commitToGrants(heap[access.ref], access.ref \in frozen,
                 [subject |-> draft.subject, resource |-> draft.resource,
                  attributes |-> draft.attributes, denied |-> draft.denied,
                  action |-> action, possession |-> possession])
    IN  Result(r.err, [heap EXCEPT ![access.ref] = r.g], frozen, acRef, locked, draft)

\* Access._prepareAndCommit(action, possession, resource, attributes) of the
\* builder b: the call ends with the draft of b in the access field
Access_prepareAndCommit(b, action, possession, resource, attributes) ==
    LET draft == [b EXCEPT
                     !.resource = IF resource.def THEN resource ELSE @,
                     !.attributes = IF b.denied THEN Some(<<>>)
                                    ELSE IF attributes.def THEN attributes
                                    ELSE Some(<<"*">>)]
        r == commitToGrants(heap[b.ref], b.ref \in frozen,
                 [subject |-> draft.subject, resource |-> draft.resource,
                  attributes |-> draft.attributes, denied |-> draft.denied,
                  action |-> action, possession |-> possession])
    IN  Result(r.err, [heap EXCEPT ![b.ref] = r.g], frozen, acRef, locked,
               IF r.err = "ok" THEN [draft EXCEPT !.attributes = Undefined] ELSE draft)

\* Access._prepareAndCommit(action, possession, resource, attributes)
prepareAndCommit(action, possession, resource, attributes) ==
    Access_prepareAndCommit(access, action, possession, resource, attributes)

\* the i-th segment of action.split(':'), undefined when there is none; the
\* key commitToGrants builds by concatenation spells it 'undefined'
Segment(segments, i) == IF i <= Len(segments) THEN segments[i] ELSE "undefined"

\* Access.do(action, attributes), the argument given as the segments that
\* action.split(':') yields: resource, action, possession
Access_do(segments, attributes) ==
    prepareAndCommit(Segment(segments, 2), Segment(segments, 3),
                     IF Segment(segments, 1) = "" THEN Undefined
                     ELSE Some(<<Segment(segments, 1)>>),
                     attributes)

\* ------------------------------------------------------------------------
\* The arguments the calls of the model draw from
\* ------------------------------------------------------------------------

\* the resource objects of the nested mappings
ReadAnyAll == [k \in {"read:any"} |-> <<"*">>]

ReadAnyNone == [k \in {"read:any"} |-> <<>>]

ReadOwnAll == [k \in {"read:own"} |-> <<"*">>]

\* a role object with the inheritance list ext (none when ext is undefined)
\* and the resource object resource under "r" (no resource when it is empty)
RoleObject(ext, resource) ==
    [hasExt |-> ext.def, ext |-> ext.val,
     res |-> IF resource = EmptyMap THEN EmptyMap ELSE [x \in {"r"} |-> resource]]

Plain == RoleObject(Undefined, EmptyMap)

Holder == RoleObject(Undefined, ReadAnyAll)

Extending(list) == RoleObject(Some(list), EmptyMap)

\* the nested mapping with the role objects of f under the names S
Mapping(S, f) == [x \in S |-> f[x]]

\* the nested mappings handed to the constructor and to setGrants: stores
\* without and with inheritance (a chain, two parents of one role, own and
\* any entries on both sides of an edge), and mappings the inspection
\* refuses (a role extending itself, a cycle of two and of three roles, a
\* chain of four roles that ends in a cycle of its last two, an unknown role
\* in a list, a reserved subject name, a reserved resource
\* name), and a mapping whose resource object has a key that names no action
\* and no possession, and one whose attribute list holds an empty string
NestedInputs ==
    { Mapping({}, <<>>),
      Mapping({"a"}, [a |-> Holder]),
      Mapping({"a", "b", "c"}, [a |-> Plain, b |-> Plain, c |-> Plain]),
      Mapping({"a", "b"}, [a |-> Extending(<<"b">>), b |-> Holder]),
      Mapping({"a", "b"}, [a |-> RoleObject(Some(<<"b">>), ReadAnyAll), b |-> Plain]),
      Mapping({"a", "b"}, [a |-> RoleObject(Some(<<"b">>), ReadAnyNone),
                           b |-> RoleObject(Undefined, ReadOwnAll)]),
      Mapping({"a", "b", "c"},
              [a |-> Extending(<<"b">>), b |-> Extending(<<"c">>), c |-> Holder]),
      Mapping({"a", "b", "c"},
              [a |-> Extending(<<"b", "c">>), b |-> Holder, c |-> Plain]),
      Mapping({"a"}, [a |-> Extending(<<"a">>)]),
      Mapping({"a", "b"}, [a |-> Extending(<<"b">>), b |-> Extending(<<"a">>)]),
      Mapping({"a", "b", "c"},
              [a |-> Extending(<<"b">>), b |-> Extending(<<"c">>), c |-> Extending(<<"a">>)]),
      Mapping({"a", "b", "c", "d"},
              [a |-> Extending(<<"b">>), b |-> Extending(<<"c">>),
               c |-> Extending(<<"d">>), d |-> Extending(<<"c">>)]),
      Mapping({"a"}, [a |-> Extending(<<"c">>)]),
      Mapping({"*"}, [x \in {"*"} |-> Plain]),
      Mapping({"a"}, [a |-> [hasExt |-> FALSE, ext |-> <<>>,
                             res |-> [x \in {"$"} |-> ReadAnyAll]]]),
      Mapping({"a"}, [a |-> RoleObject(Undefined, [k \in {"foo:bar"} |-> <<"*">>])]),
      Mapping({"a"}, [a |-> RoleObject(Undefined, [k \in {"read:any"} |-> <<"">>])]) }

\* the actions whose methods the model calls
CalledActions == {"read", "create"}

\* the attribute lists handed to the action methods
AttributeLists == {<<>>, <<"x">>}

AttributeArgs == {Undefined} \cup {Some(l) : l \in AttributeLists}

\* the records of the flat lists handed to setGrants
FlatRecords ==
    {[subject |-> Some(<<s>>), resource |-> Some(<<"r">>), action |-> "read",
      possession |-> p, attributes |-> Undefined, denied |-> FALSE] :
        s \in {"a", "b"}, p \in {Undefined, Some("own"), Some("all")}}

\* a record whose action is none of create, read, update, delete
UnknownAction ==
    [subject |-> Some(<<"a">>), resource |-> Some(<<"r">>), action |-> "foo",
     possession |-> Undefined, attributes |-> Undefined, denied |-> FALSE]

FlatInputs == {<<x>> : x \in FlatRecords \cup {UnknownAction}}

\* the arguments handed to do(), split at ':'
DoArgs == {<<"r", "read", "any">>, <<"r", "foo", "bar">>, <<"r", "read">>}

\* ------------------------------------------------------------------------
\* The state machine
\* ------------------------------------------------------------------------

\* new AccessControl(grants): the instance exists when setGrants(grants)
\* returned
Init ==
    /\ \E o \in NestedInputs :
          /\ getInspectedGrants(o, FALSE).err = "ok"
          /\ heap = [x \in ObjIds |-> IF x = "o1" THEN getInspectedGrants(o, FALSE).g
                                      ELSE EmptyGrants]
    /\ frozen = {}
    /\ acRef = "o1"
    /\ locked = FALSE
    /\ access = NoAccess
    /\ last = [op |-> "new", err |-> "ok"]
    /\ steps = 0
    /\ prior = NoAccess
    /\ record = "none"
    /\ notified = TRUE

\* the methods of the facade that end with this.store(this._grants)
StoreOps ==
    {"setGrants", "reset", "extendRole", "removeRoles", "removeResources",
     "grant", "deny", "grant(info)", "deny(info)"}

\* the methods of the builder that write to its draft
DraftOps == {"Access.subject", "Access.attributes", "Access.action", "Access.do"}

\* the builder b with the draft of the builder d
WithDraft(b, d) ==
    [b EXCEPT !.denied = d.denied, !.subject = d.subject,
              !.resource = d.resource, !.attributes = d.attributes]

\* the call op ended as r says and ran the store callback or not; where the
\* two builders have one draft, what the call wrote to it shows in both
Step(op, r, callback) ==
    /\ steps < MaxSteps
    /\ heap' = r.heap
    /\ frozen' = r.frozen
    /\ acRef' = r.acRef
    /\ locked' = r.locked
    /\ access' = r.access
    /\ last' = [op |-> op, err |-> r.err]
    /\ steps' = steps + 1
    /\ prior' = IF record = "both" /\ op \in DraftOps THEN WithDraft(prior, r.access)
                ELSE prior
    /\ record' = IF op \in {"grant", "deny"} /\ r.err = "ok" THEN "none" ELSE record
    /\ notified' = callback

\* the call op of the built library ended as r says
Do(op, r) == Step(op, r, r.err = "ok" /\ op \in StoreOps)

SetGrants == \E o \in NestedInputs : Do("setGrants", setGrants(o))

SetGrantsScalar == Do("setGrants", setGrantsScalar)

SetGrantsList == \E l \in FlatInputs : Do("setGrants", setGrantsList(l))

Reset == Do("reset", reset)

Lock == Do("lock", lock)

\* the arguments of extendRole: several subjects or several extenders, and
\* a replacement of one list by one name
ExtendArgs ==
    {<<s, e, FALSE>> : s \in DistinctLists(Roles), e \in {<<>>} \cup Singles(Roles)}
    \cup {<<s, e, FALSE>> : s \in Singles(Roles), e \in DistinctLists(Roles)}
    \cup {<<s, e, TRUE>> : s \in Singles(Roles), e \in Singles(Roles)}

ExtendRole == \E x \in ExtendArgs : Do("extendRole", AC_extendRole(x[1], x[2], x[3]))

RemoveRoles == \E subjects \in NameLists(Roles) : Do("removeRoles", removeRoles(subjects))

RemoveResources ==
    \E resources \in {<<"r">>, <<"_extend_">>},
       subjects \in {Undefined} \cup {Some(<<x>>) : x \in Roles} :
        Do("removeResources", removeResources(resources, subjects))

\* the subjects handed to grant and deny: one name, the list of a and b, or
\* a list that names a role and then a reserved keyword, or an empty name
SubjectArgs ==
    Singles(Roles)
    \cup {l \in DistinctLists(Roles) : Len(l) > 1 /\ l[1] = "a" /\ l[2] = "b"}
    \cup {<<"c", "*">>, <<"">>}

Grant == \E subject \in SubjectArgs : Do("grant", grant(subject))

Deny == \E subject \in SubjectArgs : Do("deny", deny(subject))

AccessSubject ==
    /\ access.live
    /\ \E value \in Singles(Roles) : Do("Access.subject", Access_subject(value))

AccessExtend ==
    /\ access.live
    /\ \E subjects \in {<<>>} \cup Singles(Roles) :
          Do("Access.extend", Access_extend(subjects))

AccessLock == access.live /\ Do("Access.lock", Access_lock)

\* the resource and attributes handed to an action method: no resource or
\* one, with every attribute argument, or a resource list that names a
\* resource and then a reserved keyword
ActionArgs ==
    {<<resource, attributes>> :
        resource \in {Undefined} \cup {Some(<<x>>) : x \in Resources},
        attributes \in AttributeArgs}
    \cup {<<Some(<<"r", "$">>), Undefined>>}

\* createOwn, createAny, ..., deleteOwn, deleteAny
AccessAction ==
    /\ access.live
    /\ \E action \in CalledActions, possession \in Possessions, x \in ActionArgs :
          Do("Access.action", prepareAndCommit(action, possession, x[1], x[2]))

\* Access.attributes
AccessAttributes ==
    /\ access.live
    /\ \E value \in AttributeLists \ {<<>>} : Do("Access.attributes", Access_attributes(value))

\* Access.do
AccessDo ==
    /\ access.live
    /\ \E segments \in DoArgs : Do("Access.do", Access_do(segments, Undefined))

\* the calls the built library and the TypeScript source agree on
Calls ==
    \/ SetGrants
    \/ SetGrantsScalar
    \/ SetGrantsList
    \/ Reset
    \/ Lock
    \/ ExtendRole
    \/ RemoveResources
    \/ Grant
    \/ Deny
    \/ AccessSubject
    \/ AccessExtend
    \/ AccessLock
    \/ AccessAction
    \/ AccessAttributes
    \/ AccessDo

\* the built library (lib/AccessControl.js), which package.json names as main
Next == Calls \/ RemoveRoles

Spec == Init /\ [][Next]_vars

\* removeRoles of the TypeScript source, which has no store callback
RemoveRolesTS ==
    \E subjects \in NameLists(Roles) : Step("removeRoles", removeRolesTS(subjects), FALSE)

\* the facade as its TypeScript source has it
NextTS == Calls \/ RemoveRolesTS

SpecTS == Init /\ [][NextTS]_vars

\* the record object handed to grant and deny
InfoRecord ==
    [subject |-> Some(<<"a">>), resource |-> Some(<<"r">>), attributes |-> Undefined]

\* the call op returned the builder of r while the caller keeps the builder
\* it had; same: the record object passed is the draft of that builder, so
\* what the constructor wrote to it shows in both
NewBuilder(op, r, same, whose) ==
    /\ steps < MaxSteps
    /\ heap' = r.heap
    /\ frozen' = r.frozen
    /\ acRef' = r.acRef
    /\ locked' = r.locked
    /\ access' = r.access
    /\ last' = [op |-> op, err |-> r.err]
    /\ steps' = steps + 1
    /\ prior' = IF r.err # "ok" THEN prior
                ELSE IF same THEN WithDraft(access, r.access)
                ELSE access
    /\ record' = IF r.err # "ok" THEN record ELSE IF same THEN "both" ELSE whose
    /\ notified' = (r.err = "ok" /\ op \in StoreOps)

\* ac.grant(info), ac.deny(info) with a new record object or with the one
\* the last builder was made from
GrantInfo ==
    \E denied \in BOOLEAN, same \in BOOLEAN :
        /\ same => (access.live /\ record \in {"access", "both"})
        /\ NewBuilder(IF denied THEN "deny(info)" ELSE "grant(info)",
                      grantInfo(IF same THEN DraftOf(access) ELSE InfoRecord, denied),
                      same, "access")

\* grant(subject), deny(subject) called on the builder
AccessGrant ==
    /\ access.live
    /\ \E denied \in BOOLEAN, subject \in Singles(Roles) :
          NewBuilder(IF denied THEN "Access.deny" ELSE "Access.grant",
                     Access_grant(subject, denied), FALSE, "none")

\* grant(info), deny(info) called on the builder
AccessGrantInfo ==
    /\ access.live
    /\ \E denied \in BOOLEAN, same \in BOOLEAN :
          /\ same => record \in {"access", "both"}
          /\ NewBuilder(IF denied THEN "Access.deny" ELSE "Access.grant",
                        Access_grantInfo(IF same THEN DraftOf(access) ELSE InfoRecord, denied),
                        same, "access")

\* an action method called on the builder the caller kept
PriorAction ==
    /\ prior.live
    /\ steps < MaxSteps
    /\ \E action \in CalledActions, possession \in Possessions,
          resource \in {Undefined, Some(<<"r">>)} :
          \E r \in {Access_prepareAndCommit(prior, action, possession, resource, Undefined)} :
              /\ heap' = [o \in ObjIds |->
                             IF access.live /\ o = access.ref /\ o # prior.ref
                             THEN heap[o] ELSE r.heap[o]]
              /\ prior' = r.access
              /\ access' = IF record = "both" THEN WithDraft(access, r.access) ELSE access
              /\ last' = [op |-> "Prior.action", err |-> r.err]
    /\ steps' = steps + 1
    /\ UNCHANGED <<frozen, acRef, locked, record>>
    /\ notified' = FALSE

\* the built library with builders made in the middle of a chain and from
\* record objects, the caller keeping the builder it had
NextChain ==
    Grant \/ Deny \/ GrantInfo \/ AccessGrant \/ AccessGrantInfo \/ AccessAction \/ PriorAction

SpecChain == Init /\ [][NextChain]_vars

\* the subjects the queries name: roles of the model, in the store or not,
\* a name no store has, and no name at all
QueryArgs == Singles(Roles \cup {"x"}) \cup {<<"a", "b">>, <<>>}

Can ==
    \E subject \in QueryArgs, action \in CalledActions, possession \in Possessions :
        Do("can", AC_can(subject, "r", action, possession))

HasRole == \E subject \in QueryArgs : Do("hasRole", AC_hasRole(subject))

HasResource == \E resource \in {"r", "", "_extend_"} : Do("hasResource", AC_hasResource(resource))

GetInheritedRolesOf ==
    \E subject \in Roles \cup {"x"} : Do("getInheritedRolesOf", getInheritedRolesOf(subject))

Queries == Can \/ HasRole \/ HasResource \/ GetInheritedRolesOf

\* the built library queried between grants, extensions, removals and locks
NextQuery == Queries \/ Grant \/ AccessAction \/ ExtendRole \/ RemoveRoles \/ Lock

SpecQuery == Init /\ [][NextQuery]_vars

\* ------------------------------------------------------------------------
\* Properties
\* ------------------------------------------------------------------------

\* the call ended with the locked-state error and changed nothing
Refused(r) ==
    /\ r.err = "locked"
    /\ r.heap = heap
    /\ r.acRef = acRef
    /\ r.frozen = frozen
    /\ r.locked = locked

\* C1: once lock() has succeeded, every call of setGrants, reset,
\* extendRole, removeRoles, removeResources, grant and deny on the facade
\* fails with the locked-state error and leaves the store as it was.
C1_LockedFacadeRefuses ==
    isLocked =>
        /\ \A o \in NestedInputs : Refused(setGrants(o))
        /\ \A l \in FlatInputs : Refused(setGrantsList(l))
        /\ Refused(reset)
        /\ \A x \in ExtendArgs : Refused(AC_extendRole(x[1], x[2], x[3]))
        /\ \A subjects \in NameLists(Roles) \cup {<<>>} : Refused(removeRoles(subjects))
        /\ \A resources \in {<<"r">>, <<"_extend_">>},
              subjects \in {Undefined} \cup {Some(<<x>>) : x \in Roles} :
              Refused(removeResources(resources, subjects))
        /\ \A subject \in SubjectArgs : Refused(grant(subject)) /\ Refused(deny(subject))

\* a mutator was called on a locked instance and was refused
C1_Witness ==
    /\ isLocked
    /\ last.op \in {"setGrants", "reset", "extendRole", "removeRoles",
                    "removeResources", "grant", "deny"}
    /\ last.err = "locked"

\* C2: once the instance is locked it stays locked and its store stays the
\* same, whatever is called afterwards, the action methods and extend() of a
\* builder handed out before the lock included.
C2_LockedForever == [][isLocked => (isLocked' /\ Store' = Store)]_vars

\* a builder handed out before the lock committed after it, and failed
C2_Witness ==
    /\ isLocked
    /\ access.live
    /\ access.ref = acRef
    /\ last.op \in {"Access.action", "Access.extend"}
    /\ last.err = "TypeError"

\* the names in the inheritance list of s
Parents(g, s) ==
    IF s \in DOMAIN g /\ g[s].hasExt THEN {g[s].ext[i] : i \in 1..Len(g[s].ext)} ELSE {}

RECURSIVE Ancestors(_, _, _)
Ancestors(g, todo, seen) ==
    IF todo = {} THEN seen
    ELSE LET s == CHOOSE x \in todo : TRUE
         IN  Ancestors(g, (todo \cup Parents(g, s)) \ (seen \cup {s}), seen \cup {s})

\* the names s inherits from, directly or through other roles
InheritedBy(g, s) == Ancestors(g, Parents(g, s), {})

Acyclic(g) == \A s \in DOMAIN g : s \notin InheritedBy(g, s)

\* C3: in every reachable state no role inherits from itself, directly or
\* through other roles.
C3_InheritanceAcyclic == \A o \in ObjIds : Acyclic(heap[o])

\* an extension that would have closed a cycle was refused, and the store
\* holds a chain of two edges
C3_Witness ==
    /\ last.op \in {"extendRole", "Access.extend"}
    /\ last.err = "cross"
    /\ \E s \in DOMAIN Store : \E t \in Parents(Store, s) : Parents(Store, t) # {}

\* the hierarchy of s resolves on g
Resolves(g, s) == getRoleHierarchyOf(g, s, "", 1).err = "ok"

\* C4: with two roles x and y in the store, y extending nothing, a
\* successful extendRole(x, [y]) followed by extendRole(y, [x]) makes the
\* second call fail with the cross-inheritance error and leaves the store
\* as the first call left it: x extends y and y extends nothing.
C4_CrossInheritanceRefused ==
    \A x \in DOMAIN Store, y \in DOMAIN Store :
        (x # y /\ ~isLocked /\ Parents(Store, y) = {} /\ Resolves(Store, x)) =>
            LET first == extendRole(Store, FALSE, <<x>>, <<y>>, FALSE)
                second == extendRole(first.g, FALSE, <<y>>, <<x>>, FALSE)
            IN  first.err = "ok" =>
                    /\ second.err = "cross"
                    /\ second.g = first.g
                    /\ y \in Parents(second.g, x)
                    /\ Parents(second.g, y) = {}

\* a extends b, b extends nothing, and an extendRole was just refused for
\* cross-inheritance
C4_Witness ==
    /\ {"a", "b"} \subseteq DOMAIN Store
    /\ "b" \in Parents(Store, "a")
    /\ Parents(Store, "b") = {}
    /\ last.op = "extendRole"
    /\ last.err = "cross"

\* the elements of a list
Elems(l) == {l[i] : i \in 1..Len(l)}

\* the key of a resource object
Key(action, possession) == action \o ":" \o possession

\* role s holds a non-empty list for the key on resource res
Holds(g, s, res, key) ==
    /\ s \in DOMAIN g
    /\ res \in DOMAIN g[s].res
    /\ key \in DOMAIN g[s].res[res]
    /\ g[s].res[res][key] # <<>>

\* the record grant(subject).<action><Possession>("r", attributes) commits
GrantRecord(subject, action, possession, attributes) ==
    [subject |-> Some(<<subject>>), resource |-> Some(<<"r">>), attributes |-> attributes,
     denied |-> FALSE, action |-> action, possession |-> possession]

\* the grants of an attribute list, passed or defaulted
GrantedLists == {a \in AttributeArgs : a.def => a.val # <<>>}

\* C5: whenever a role A inherits, through a chain of any length, from a
\* role C that holds a permission for a resource, action and possession, the
\* query for A with that resource, action and possession is granted; and
\* committing a grant to C before creating the edges B extends C and
\* A extends B leaves the same store, hence the same query results, as
\* committing it after them.
C5_InheritedGrantSeen ==
    /\ \A A \in DOMAIN Store : \A C \in InheritedBy(Store, A) :
        \A res \in Resources, action \in Actions, possession \in Possessions :
            (Resolves(Store, A) /\ Holds(Store, C, res, Key(action, possession))) =>
                LET q == Query(Store, A, res, action, possession)
                IN  q.err = "ok" /\ Granted(q.attrs)
    /\ \A C \in DOMAIN Store, possession \in Possessions, attributes \in GrantedLists :
        \A g1 \in {commitToGrants(Store, FALSE,
                                  GrantRecord(C, "read", possession, attributes))} :
        \A B \in DOMAIN Store \ {C} :
        \A g2 \in {extendRole(g1.g, FALSE, <<B>>, <<C>>, FALSE)} :
        \A h1 \in {extendRole(Store, FALSE, <<B>>, <<C>>, FALSE)} :
        \A A \in DOMAIN Store \ {B, C} :
        \A g3 \in {extendRole(g2.g, FALSE, <<A>>, <<B>>, FALSE)} :
            (g1.err = "ok" /\ g2.err = "ok" /\ g3.err = "ok") =>
                \A h2 \in {extendRole(h1.g, FALSE, <<A>>, <<B>>, FALSE)} :
                \A h3 \in {commitToGrants(h2.g, FALSE,
                                          GrantRecord(C, "read", possession, attributes))} :
                    /\ h1.err = "ok" /\ h2.err = "ok" /\ h3.err = "ok"
                    /\ h3.g = g3.g
                    /\ (Resolves(g3.g, A) =>
                            Granted(Query(g3.g, A, "r", "read", possession).attrs))

\* a extends b extends c, a grant to c was committed after the edges
\* existed, and the query for a sees it
C5_Witness ==
    /\ {"a", "b", "c"} \subseteq DOMAIN Store
    /\ "b" \in Parents(Store, "a")
    /\ "c" \in Parents(Store, "b")
    /\ last = [op |-> "Access.action", err |-> "ok"]
    /\ access.subject = Some(<<"c">>)
    /\ ~access.denied
    /\ Holds(Store, "c", "r", "create:any")
    /\ Granted(Query(Store, "a", "r", "create", "any").attrs)

\* the state a commit of the builder leaves in the store, for a builder
\* that writes to the store
Committed(r) == r.heap[r.acRef]

HasEntry(g, s, res, key) ==
    s \in DOMAIN g /\ res \in DOMAIN g[s].res /\ key \in DOMAIN g[s].res[res]

\* C7 as stated: a role X with an any entry and no own entry for an action
\* on R gets the same result from the own query as from the any query.
C7_OwnFallsBackToAny ==
    \A X \in DOMAIN Store, res \in Resources, action \in Actions :
        (HasEntry(Store, X, res, Key(action, "any"))
         /\ ~HasEntry(Store, X, res, Key(action, "own"))) =>
            Query(Store, X, res, action, "own") = Query(Store, X, res, action, "any")

\* C7, amended: a role X with an any entry and no own entry for an action
\* on R gets the same result from the own query as from the any query,
\* provided no role X inherits from, directly or through other roles, has
\* an own entry for that action on R.
C7_OwnFallsBackToAnyInHierarchy ==
    \A X \in DOMAIN Store, res \in Resources, action \in Actions :
        (/\ HasEntry(Store, X, res, Key(action, "any"))
         /\ ~HasEntry(Store, X, res, Key(action, "own"))
         /\ \A Y \in InheritedBy(Store, X) : ~HasEntry(Store, Y, res, Key(action, "own"))) =>
            Query(Store, X, res, action, "own") = Query(Store, X, res, action, "any")

\* a role that inherits from another was granted create:any only, through
\* an action method, and its createOwn query is granted
C7_Witness ==
    /\ last = [op |-> "Access.action", err |-> "ok"]
    /\ \E X \in DOMAIN Store :
          /\ Parents(Store, X) # {}
          /\ Holds(Store, X, "r", "create:any")
          /\ ~HasEntry(Store, X, "r", "create:own")
          /\ \A Y \in InheritedBy(Store, X) : ~HasEntry(Store, Y, "r", "create:own")
          /\ Granted(Query(Store, X, "r", "create", "own").attrs)

\* the list _prepareAndCommit is to store
StoredFor(denied, attributes) ==
    IF denied THEN <<>>
    ELSE IF ~attributes.def THEN <<"*">>
    ELSE attributes.val

C9_RemovedRolesLeaveLists ==
    [][(last'.op = "removeRoles" /\ last'.err = "ok") =>
        \A A \in DOMAIN Store' :
            /\ Parents(Store', A) \cap (DOMAIN Store \ DOMAIN Store') = {}
            /\ (Parents(Store, A) # {} /\ Parents(Store, A) \cap DOMAIN Store' = {}) =>
                  getRoleHierarchyOf(Store', A, "", 1) = [err |-> "ok", roles |-> <<A>>]
      ]_vars

\* C10: a removeRoles that fails because a name is not in the store removes
\* no subject and changes no inheritance list, wherever in the list the
\* missing name stands.
C10_FailedRemoveChangesNothing ==
    [][(last'.op = "removeRoles" /\ last'.err = "notfound") => Store' = Store]_vars

\* C11: a grant, deny, subject() or action method that fails because one of
\* several subject or resource names is empty or reserved leaves every
\* grants object as it was: nothing is created for the valid names.
C11_FailedCommitChangesNothing ==
    [][(/\ last'.op \in {"grant", "deny", "Access.subject", "Access.action"}
        /\ last'.err \in {"reserved", "invalid"}) => heap' = heap]_vars

\* C12: in every reachable state no subject key and no resource key of a
\* grants object is an empty string or a reserved keyword; the inheritance
\* list (the field ext, the key '_extend_' of the role object) is the only
\* reserved key under a subject.
C12_NoReservedKeys ==
    \A o \in ObjIds : \A s \in DOMAIN heap[o] :
        /\ s \notin RESERVED_KEYWORDS \cup {""}
        /\ \A res \in DOMAIN heap[o][s].res : res \notin RESERVED_KEYWORDS \cup {""}

\* a call was refused for a reserved name and the store holds a role with an
\* inheritance list and a resource
C12_Witness ==
    /\ last.err = "reserved"
    /\ \E s \in DOMAIN Store : Store[s].hasExt /\ DOMAIN Store[s].res # {}

\* C13: in every reachable state every key of a resource entry of the store
\* has the form action:possession, with action one of create, read, update,
\* delete and possession one of own, any.
C13_KeysAreActionPossession ==
    \A s \in DOMAIN Store : \A res \in DOMAIN Store[s].res :
        \A k \in DOMAIN Store[s].res[res] :
            \E action \in Actions, possession \in Possessions :
                k = Key(action, possession)

\* C14: in every reachable state, unlocked or locked, handing the value of
\* getGrants() to the constructor of a fresh instance succeeds and gives a
\* store equal to the original.
C14_GetGrantsLoadsBack ==
    \A r \in {getInspectedGrants(Store, acRef \in frozen)} :
        r.err = "ok" /\ r.g = Store

\* a grant record of a flat list
Record(subject, possession, attributes) ==
    [subject |-> Some(subject), resource |-> Some(<<"r">>), action |-> "read",
     possession |-> possession, attributes |-> attributes, denied |-> FALSE]

\* flat lists without inheritance: records with and without a possession and
\* an attribute list, for one subject and for two, alone and in pairs (the
\* second record may overwrite the key the first one wrote)
EquivalenceRecords ==
    { Record(<<"a">>, Undefined, Undefined),
      Record(<<"a">>, Some("own"), Some(<<"x">>)),
      Record(<<"a", "b">>, Some("any"), Some(<<>>)) }

EquivalenceLists == UNION {SeqsOfLen(EquivalenceRecords, n) : n \in 1..MaxList}

\* the records of list that name subject s
RecordsOf(list, s) == {i \in 1..Len(list) : s \in Elems(list[i].subject.val)}

\* the key a record describes: its action and its possession, any by default
KeyOf(rec) == Key(rec.action, IF rec.possession.def THEN rec.possession.val ELSE "any")

\* the last record of list that describes key k of resource res of subject s
LastFor(list, s, res, k) ==
    CHOOSE i \in RecordsOf(list, s) :
        /\ res \in Elems(list[i].resource.val) /\ KeyOf(list[i]) = k
        /\ \A j \in RecordsOf(list, s) :
              (res \in Elems(list[j].resource.val) /\ KeyOf(list[j]) = k) => j <= i

\* the nested mapping that describes the grants of a flat list
NestedOf(list) ==
    [s \in UNION {Elems(list[i].subject.val) : i \in 1..Len(list)} |->
        [hasExt |-> FALSE, ext |-> <<>>,
         res |-> [res \in UNION {Elems(list[i].resource.val) : i \in RecordsOf(list, s)} |->
                    [k \in {KeyOf(list[i]) : i \in {j \in RecordsOf(list, s) :
                                                       res \in Elems(list[j].resource.val)}} |->
                        LET rec == list[LastFor(list, s, res, k)]
                        IN  StoredFor(rec.denied, rec.attributes)]]]]

\* every flat list with the nested mapping that describes its grants
EquivalentInputs == {<<l, NestedOf(l)>> : l \in EquivalenceLists}

\* the subjects of the queries compared
QuerySubjects == {<<"a">>, <<"b", "a">>}

\* C15: for grants without inheritance, loading the flat record list and
\* loading the nested mapping that describes the same grants both succeed
\* or both fail, and on the two stores every query (subjects, resource,
\* action, possession) has the same granted flag and the same attributes.
C15_FlatListEquivalence ==
    \A e \in EquivalentInputs :
        \A f \in {setGrantsList(e[1])}, n \in {setGrants(e[2])} :
            /\ f.err = n.err
            /\ f.err = "ok" =>
                  \A s \in QuerySubjects, p \in Possessions :
                      \A x \in {getUnionAttrsOfRoles(Committed(f), s, "r", "read", p)},
                         y \in {getUnionAttrsOfRoles(Committed(n), s, "r", "read", p)} :
                          /\ x = y
                          /\ Granted(x.attrs) = Granted(y.attrs)

\* setGrants has loaded a flat list, the store equals what the nested mapping
\* of that list loads to, and from there a flat list of two records whose
\* second record overwrites the key of the first loads to a store on which
\* a query is granted
C15_Witness ==
    /\ last = [op |-> "setGrants", err |-> "ok"]
    /\ \E l \in FlatInputs :
          /\ getInspectedGrantsList(l).err = "ok"
          /\ Store = getInspectedGrantsList(l).g
          /\ Store = getInspectedGrants(NestedOf(l), FALSE).g
    /\ \E l \in EquivalenceLists :
          /\ Len(l) = 2 /\ KeyOf(l[1]) = KeyOf(l[2]) /\ l[1] # l[2]
          /\ "a" \in Elems(l[1].subject.val) \cap Elems(l[2].subject.val)
          /\ setGrantsList(l).err = "ok"
          /\ Granted(Query(Committed(setGrantsList(l)), "a", "r", "read", "own").attrs)

\* C16: after a successful setGrants(input) the store holds exactly the
\* subjects, resources, keys, attribute lists and inheritance lists the
\* input describes (the nested mapping itself; for a flat list the grants of
\* its records) and nothing of the previous store; after reset() the store
\* is empty.
C16_SetGrantsReplaces ==
    /\ \A o \in NestedInputs : \A r \in {setGrants(o)} :
          r.err = "ok" => Committed(r) = o
    /\ \A l \in FlatInputs : \A r \in {setGrantsList(l)} :
          r.err = "ok" => Committed(r) = NestedOf(l)
    /\ \A r \in {reset} : r.err = "ok" => Committed(r) = EmptyGrants

\* setGrants has replaced a store that a builder still refers to, and that
\* store named a subject the new one, which has an inheritance list, lacks
C16_Witness ==
    /\ last = [op |-> "setGrants", err |-> "ok"]
    /\ \E s \in DOMAIN Store : Store[s].hasExt
    /\ access.live /\ access.ref # acRef
    /\ DOMAIN heap[access.ref] \ DOMAIN Store # {}
    /\ reset.err = "ok"

\* the arguments of removeResources: a resource name or the inheritance-list
\* key, for all subjects or for one
RemoveResourcesArgs ==
    {<<resources, subjects>> :
        resources \in {<<"r">>, <<"_extend_">>},
        subjects \in {Undefined} \cup {Some(<<x>>) : x \in Roles}}

\* C17: removeResources(resources, subjects?) removes exactly the resource
\* entries named in resources under the named subjects (under all subjects
\* when subjects is omitted); every other resource entry and every
\* subject's inheritance list is unchanged and no subject is removed, for
\* any string passed as a resource name.
C17_RemoveResourcesExact ==
    \A x \in RemoveResourcesArgs : \A r \in {removeResources(x[1], x[2])} :
        r.err = "ok" =>
            /\ DOMAIN Committed(r) = DOMAIN Store
            /\ \A s \in DOMAIN Store :
                  /\ Committed(r)[s].hasExt = Store[s].hasExt
                  /\ Committed(r)[s].ext = Store[s].ext
                  /\ \A res \in DOMAIN Store[s].res :
                        IF Has(x[1], res) /\ (x[2].def => Has(x[2].val, s))
                        THEN res \notin DOMAIN Committed(r)[s].res
                        ELSE /\ res \in DOMAIN Committed(r)[s].res
                             /\ Committed(r)[s].res[res] = Store[s].res[res]

\* the resource names that appear under at least one subject of grants g
ResourceNames(g) == UNION {DOMAIN g[s].res : s \in DOMAIN g}

\* C18: in every reachable state, also when some role has an inheritance
\* list, getResources() returns exactly the resource names that appear
\* under at least one subject, never the inheritance-list key, and
\* hasResource(n) is true exactly for those names.
C18_ResourcesListed ==
    /\ getResources(Store) = ResourceNames(Store)
    /\ "_extend_" \notin getResources(Store)
    /\ \A n \in Resources \cup RESERVED_KEYWORDS \cup {"x"} :
          hasResource(n) = (n \in ResourceNames(Store))

\* C19: on a grant builder, attributes(L) followed by an action method
\* called without an attributes argument commits L as the attribute list of
\* that action-possession key.
C19_AttributesCommitted ==
    (/\ last = [op |-> "Access.attributes", err |-> "ok"]
     /\ ~access.denied /\ access.subject.def /\ access.ref \notin frozen) =>
        \A action \in CalledActions, p \in Possessions, x \in Resources :
            \A r \in {prepareAndCommit(action, p, Some(<<x>>), Undefined)} :
                /\ r.err = "ok"
                /\ \A s \in Elems(access.subject.val) :
                      r.heap[access.ref][s].res[x][Key(action, p)] = access.attributes.val

\* the flattened effective role set of the subjects: the subjects and every
\* role they inherit from, directly or through other roles
EffectiveRoles(g, subjects) ==
    Elems(subjects) \cup UNION {InheritedBy(g, s) : s \in Elems(subjects)}

\* the key a query for action and possession resolves to on role s: the key
\* itself when the role has an entry for it on res, else action:any
ResolvedKey(g, s, res, action, possession) ==
    IF HasEntry(g, s, res, Key(action, possession)) THEN Key(action, possession)
    ELSE Key(action, "any")

\* the subjects of the queries: one role of the store or two
StoreSubjects ==
    Singles(DOMAIN Store)
    \cup {l \in {<<"a", "b">>, <<"b", "c">>, <<"c", "a">>} : Elems(l) \subseteq DOMAIN Store}

\* C20: a query for one or several subjects that resolves is granted if and
\* only if at least one role of their flattened effective role set holds a
\* non-empty attribute list for the resolved action-possession key on the
\* queried resource; granted is true exactly when the attributes are not
\* empty, and when no effective role has an entry for the resource the
\* query is not granted and its attributes are [].
C20_GrantedIffSomeRoleHolds ==
    \A S \in StoreSubjects, res \in Resources, action \in CalledActions, p \in Possessions :
        \A q \in {getUnionAttrsOfRoles(Store, S, res, action, p)} :
            q.err = "ok" =>
                /\ Granted(q.attrs) <=>
                      \E s \in EffectiveRoles(Store, S) :
                          Holds(Store, s, res, ResolvedKey(Store, s, res, action, p))
                /\ Granted(q.attrs) <=> (q.attrs # <<>>)
                /\ (\A s \in EffectiveRoles(Store, S) : res \notin DOMAIN Store[s].res) =>
                      (~Granted(q.attrs) /\ q.attrs = <<>>)

\* a role X with an empty read:any list on r inherits from a role Y that has
\* no read:own entry and a non-empty read:any list: the read:own query for X
\* and for [X, Y] is granted through Y; and some role has no entry for r
C20_Witness ==
    \E X \in DOMAIN Store : \E Y \in InheritedBy(Store, X) :
        /\ HasEntry(Store, X, "r", "read:any") /\ ~Holds(Store, X, "r", "read:any")
        /\ ~HasEntry(Store, X, "r", "read:own")
        /\ ~HasEntry(Store, Y, "r", "read:own") /\ Holds(Store, Y, "r", "read:any")
        /\ Granted(getUnionAttrsOfRoles(Store, <<X>>, "r", "read", "own").attrs)
        /\ \E Z \in DOMAIN Store : "r" \notin DOMAIN Store[Z].res

\* the subject lists of a query that name a subject n which is not in the
\* store: n alone, or a role of the store and n
NamingUnknown(n) == {<<n>>} \cup {<<s, n>> : s \in DOMAIN Store}

\* C21: a query that names a subject which is not in the store fails with
\* the not-found error instead of returning a Permission that is not
\* granted.
C21_UnknownSubjectNotFound ==
    \A n \in (Roles \cup {"x"} \cup ObjectPrototype) \ DOMAIN Store :
        \A S \in NamingUnknown(n), p \in Possessions :
            getUnionAttrsOfRoles(Store, S, "r", "read", p).err = "notfound"

\* how every mutator of the facade ends in the current state
MutatorResults ==
    << [o \in NestedInputs |-> setGrants(o)],
       [l \in FlatInputs |-> setGrantsList(l)],
       reset,
       [x \in ExtendArgs |-> AC_extendRole(x[1], x[2], x[3])],
       [subjects \in NameLists(Roles) |-> removeRoles(subjects)],
       [x \in RemoveResourcesArgs |-> removeResources(x[1], x[2])],
       [subject \in SubjectArgs |-> grant(subject)],
       [subject \in SubjectArgs |-> deny(subject)] >>

\* C22: lock() called on a locked instance returns without error and leaves
\* isLocked and the store as they were, and every mutator ends after the
\* second lock() as it ended after the first.
C22_LockIdempotent ==
    [][(isLocked /\ last'.op \in {"lock", "Access.lock"}) =>
          /\ last'.err = "ok"
          /\ isLocked'
          /\ <<heap, frozen, acRef, locked>>' = <<heap, frozen, acRef, locked>>
          /\ MutatorResults' = MutatorResults]_vars

\* lock() has returned, the instance is locked, a further lock() returns
\* and a mutator is refused
C22_Witness ==
    /\ isLocked
    /\ last.op \in {"lock", "Access.lock"} /\ last.err = "ok"
    /\ lock.err = "ok"
    /\ Refused(reset)

\* C23: lock() called on a store without subject entries fails with an
\* error, isLocked stays false, and the store remains mutable: it is
\* unchanged and not frozen, and a later grant succeeds.
C23_EmptyLockFails ==
    [][(DOMAIN Store = {} /\ last'.op \in {"lock", "Access.lock"}) =>
          /\ last'.err = "emptylock"
          /\ ~isLocked'
          /\ <<heap, frozen, acRef, locked>>' = <<heap, frozen, acRef, locked>>
          /\ acRef \notin frozen
          /\ \A subject \in Singles(Roles) :
                /\ grant(subject)'.err = "ok"
                /\ DOMAIN Committed(grant(subject))' = {subject[1]}]_vars

\* lock() has failed on an empty store, and a grant from there succeeds
C23_Witness ==
    /\ last.op \in {"lock", "Access.lock"} /\ last.err = "emptylock"
    /\ DOMAIN Store = {} /\ ~isLocked
    /\ grant(<<"a">>).err = "ok"

\* C24: for a role X that inherits from no role and has an entry for the
\* resource, the query uses the list stored under the exact
\* action:possession key whenever X has that key, also when the list is
\* empty; only an own query without an own key uses the any key; an any
\* query never uses the own key.
C24_ExactKeyFirst ==
    \A X \in DOMAIN Store, res \in Resources, action \in CalledActions, p \in Possessions :
        (Parents(Store, X) = {} /\ res \in DOMAIN Store[X].res) =>
            Query(Store, X, res, action, p) =
                [err |-> "ok",
                 attrs |-> IF HasEntry(Store, X, res, Key(action, p))
                           THEN Store[X].res[res][Key(action, p)]
                           ELSE IF p = "own" /\ HasEntry(Store, X, res, Key(action, "any"))
                                THEN Store[X].res[res][Key(action, "any")]
                                ELSE <<>>]

\* a role without parents holds an empty read:own list next to a non-empty
\* read:any list, and its read:own query is not granted
C24_Witness ==
    \E X \in DOMAIN Store :
        /\ Parents(Store, X) = {}
        /\ HasEntry(Store, X, "r", "read:own") /\ ~Holds(Store, X, "r", "read:own")
        /\ Holds(Store, X, "r", "read:any")
        /\ ~Granted(Query(Store, X, "r", "read", "own").attrs)
        /\ Granted(Query(Store, X, "r", "read", "any").attrs)

\* the arguments of the action methods, and two resources at once
CommitArgs == ActionArgs \cup {<<Some(<<"r", "q">>), Some(<<"x">>)>>}

\* grants g with list under key k of every resource of R under every subject
\* of S, and nothing else changed
WithKey(g, S, R, k, list) ==
    [s \in DOMAIN g \cup S |->
        LET role == IF s \in DOMAIN g THEN g[s] ELSE EmptyRole IN
        IF s \notin S THEN role
        ELSE [role EXCEPT !.res =
                 [res \in DOMAIN role.res \cup R |->
                     LET entry == IF res \in DOMAIN role.res THEN role.res[res] ELSE EmptyMap IN
                     IF res \notin R THEN entry
                     ELSE [key \in DOMAIN entry \cup {k} |->
                              IF key = k THEN list ELSE entry[key]]]]]

\* C25: an action-method commit for subjects S, resources R and key k sets
\* the attribute list of k under every pair of S x R, replacing any earlier
\* list of that key, and leaves every other key, resource entry, subject and
\* inheritance list (and every other grants object) unchanged.
C25_CommitFrame ==
    access.live =>
        \A action \in CalledActions, p \in Possessions, x \in CommitArgs :
            \A r \in {prepareAndCommit(action, p, x[1], x[2])} :
                r.err = "ok" =>
                    r.heap = [heap EXCEPT ![access.ref] =
                                 WithKey(heap[access.ref],
                                         Elems(access.subject.val),
                                         Elems(IF x[1].def THEN x[1].val ELSE access.resource.val),
                                         Key(action, p),
                                         StoredFor(access.denied, x[2]))]

\* a grant builder for two subjects, one with an inheritance list and an
\* empty read:any list on r, the other with another key on r; its readAny
\* returns and the first subject's read:any query is granted again
C25_Witness ==
    /\ access.live /\ ~access.denied /\ access.subject.def
    /\ Len(access.subject.val) = 2
    /\ \E s \in Elems(access.subject.val) :
          /\ heap[access.ref][s].hasExt
          /\ HasEntry(heap[access.ref], s, "r", "read:any")
          /\ ~Holds(heap[access.ref], s, "r", "read:any")
    /\ \E s \in Elems(access.subject.val) : HasEntry(heap[access.ref], s, "r", "read:own")
    /\ \A r \in {prepareAndCommit("read", "any", Some(<<"r">>), Undefined)} :
          /\ r.err = "ok"
          /\ \A s \in Elems(access.subject.val) : Holds(r.heap[access.ref], s, "r", "read:any")

\* the arguments of extendRole with at least one extender, and the
\* extension of a name that is not in the store
ExtendingArgs ==
    {x \in ExtendArgs : Len(x[2]) > 0}
    \cup {<<(<<n>>), (<<e>>), FALSE>> : n \in {"x"} \cup ObjectPrototype, e \in Roles}

\* C26: extendRole(subjects, extenders) fails when an extender is not in the
\* store, when a subject is not in the store, or when a subject is among
\* the extenders; and on every failure, cross-inheritance included, the
\* store is as it was, also when the failure is found for a later subject.
C26_FailedExtendChangesNothing ==
    ~isLocked =>
        \A x \in ExtendingArgs : \A r \in {AC_extendRole(x[1], x[2], x[3])} :
            /\ (\/ Elems(x[1]) \cup Elems(x[2]) \notin SUBSET (DOMAIN Store)
                \/ Elems(x[1]) \cap Elems(x[2]) # {}) => r.err # "ok"
            /\ r.err # "ok" => Committed(r) = Store

\* C27: role flattening terminates on every store it is run on, the
\* candidate nested mapping handed to setGrants included, whatever cycles
\* the inheritance lists contain: no call ends with the stack exhausted by
\* a recursion that never returns.
C27_FlatteningTerminates ==
    /\ last.err # "overflow"
    /\ \A S \in Roles : getRoleHierarchyOf(Store, S, "", 1).err # "overflow"

\* C28: once the instance is locked, subject(), extend() and every action
\* method called on a builder that was handed out before the lock fail
\* with the locked-state error.
C28_BuilderRefusedAsLocked ==
    [][(/\ isLocked
        /\ access.live
        /\ access.ref = acRef
        /\ last'.op \in {"Access.subject", "Access.extend", "Access.action"})
       => last'.err = "locked"]_vars

\* C29: a setGrants call that fails (a value that is no object and no
\* array, a reserved name, an invalid attribute list, an unknown or cyclic
\* inheritance, an invalid record in a flat list) leaves the store of the instance exactly
\* as it was before the call.
C29_FailedSetGrantsChangesNothing ==
    [][(last'.op = "setGrants" /\ last'.err # "ok")
       => (Store' = Store /\ acRef' = acRef /\ isLocked' = isLocked)]_vars

\* a store with grants and an inheritance list was handed a mapping with a
\* cycle, which was refused
C29_Witness ==
    /\ last = [op |-> "setGrants", err |-> "cross"]
    /\ \E s \in DOMAIN Store : Parents(Store, s) # {}
    /\ \E s \in DOMAIN Store : DOMAIN Store[s].res # {}

RECURSIVE FirstSeen(_, _, _)
\* the roles reached from the names on the stack, depth first, every role
\* listed where it is first seen
FirstSeen(g, stack, seen) ==
    IF stack = <<>> THEN seen
    ELSE IF Has(seen, Head(stack)) THEN FirstSeen(g, Tail(stack), seen)
    ELSE FirstSeen(g, (IF g[Head(stack)].hasExt THEN g[Head(stack)].ext ELSE <<>>)
                          \o Tail(stack),
                   Append(seen, Head(stack)))

\* no role of g inherits from itself and every inherited name is a role of g
Legitimate(g) == Acyclic(g) /\ \A s \in DOMAIN g : Parents(g, s) \subseteq DOMAIN g

\* C30: on a store whose inheritance is acyclic, hierarchyOf(S) is never
\* refused; its list starts with S, holds exactly S and the roles S inherits
\* from, each of them once also when it is reached along several paths, in
\* depth-first first-seen order.
C30_HierarchyFirstSeen ==
    Legitimate(Store) =>
        \A S \in DOMAIN Store : \A h \in {getRoleHierarchyOf(Store, S, "", 1)} :
            /\ h.err = "ok"
            /\ h.roles[1] = S
            /\ Elems(h.roles) = {S} \cup InheritedBy(Store, S)
            /\ Len(h.roles) = Cardinality(Elems(h.roles))
            /\ h.roles = FirstSeen(Store, <<S>>, <<>>)

\* role c is inherited by a directly and through b, and is listed once
C30_Witness ==
    /\ Legitimate(Store)
    /\ Parents(Store, "a") = {"b", "c"}
    /\ "c" \in Parents(Store, "b")
    /\ last = [op |-> "extendRole", err |-> "ok"]
    /\ getRoleHierarchyOf(Store, "a", "", 1).roles \in {<<"a", "b", "c">>, <<"a", "c", "b">>}

\* the inheritance list of s in g, empty when s has none
ListOf(g, s) == IF g[s].hasExt THEN g[s].ext ELSE <<>>

\* C31: a successful extendRole(subject, extenders, replace) with extenders
\* sets the inheritance list of the subject to its previous list followed by
\* the extenders not yet in it when replace is false, and to the extenders
\* when replace is true; with no extenders it changes nothing; every other
\* subject and every resource entry is as before.
C31_ExtendSetsList ==
    ~isLocked =>
        \A x \in {y \in ExtendArgs : Len(y[1]) = 1 /\ y[1][1] \in DOMAIN Store} :
            \A r \in {AC_extendRole(x[1], x[2], x[3])} :
                r.err = "ok" =>
                    Committed(r) =
                        IF x[2] = <<>> THEN Store
                        ELSE [Store EXCEPT ![x[1][1]] =
                                 [@ EXCEPT
                                     !.hasExt = TRUE,
                                     !.ext = IF x[3] THEN x[2]
                                             ELSE ListOf(Store, x[1][1]) \o
                                                  SelectSeq(x[2],
                                                      LAMBDA e : ~Has(ListOf(Store, x[1][1]), e))]]

\* a role that extended one role was extended by a second one, which is
\* listed after the first
C31_Witness ==
    /\ last = [op |-> "extendRole", err |-> "ok"]
    /\ \E s \in DOMAIN Store : Len(ListOf(Store, s)) = 2

\* C32: after an action method of a grant builder has committed, the draft
\* has no attributes and keeps its subject and its resource: the next action
\* method called without a resource and without attributes commits ['*']
\* under its key of the same resource, for the same subjects, whatever list
\* the commit before it stored.
C32_AttributesCleared ==
    (/\ last = [op |-> "Access.action", err |-> "ok"]
     /\ ~access.denied /\ access.ref \notin frozen) =>
        /\ access.attributes = Undefined
        /\ access.subject.def
        /\ access.resource.def
        /\ \A s \in Elems(access.subject.val), x \in Elems(access.resource.val) :
              s \in DOMAIN heap[access.ref] /\ x \in DOMAIN heap[access.ref][s].res
        /\ \A action \in CalledActions, p \in Possessions :
              \A r \in {prepareAndCommit(action, p, Undefined, Undefined)} :
                  /\ r.err = "ok"
                  /\ r.access.subject = access.subject
                  /\ r.access.resource = access.resource
                  /\ \A s \in Elems(access.subject.val), x \in Elems(access.resource.val) :
                        r.heap[access.ref][s].res[x][Key(action, p)] = <<"*">>

\* grant(X).readAny(R, L).createAny(): the store holds L under read:any and
\* ['*'] under create:any of R
C32_Witness ==
    /\ last = [op |-> "Access.action", err |-> "ok"]
    /\ ~access.denied /\ access.ref = acRef
    /\ \E s \in Elems(access.subject.val) :
          /\ s \in DOMAIN Store
          /\ "r" \in DOMAIN Store[s].res
          /\ DOMAIN Store[s].res["r"] = {"read:any", "create:any"}
          /\ Store[s].res["r"]["read:any"] = <<"x">>
          /\ Store[s].res["r"]["create:any"] = <<"*">>

\* C34: a grant(S) or deny(S) with a name or a list of names that returns
\* has created an empty entry for every named subject the store did not
\* have and has left every other entry as it was, with no action method
\* called; the new subject is there for a later query (which finds nothing
\* granted), a later extend naming it and a later lock.
C34_SubjectsPreCreated ==
    [][(last'.op \in {"grant", "deny"} /\ last'.err = "ok") =>
          /\ acRef' = acRef
          /\ DOMAIN Store' = DOMAIN Store \cup Elems(access'.subject.val)
          /\ \A s \in DOMAIN Store : Store'[s] = Store[s]
          /\ \A s \in DOMAIN Store' \ DOMAIN Store :
                /\ Store'[s] = EmptyRole
                /\ Query(Store', s, "r", "read", "any") = [err |-> "ok", attrs |-> <<>>]
                /\ \A t \in DOMAIN Store :
                      extendRole(Store', FALSE, <<t>>, <<s>>, FALSE).err = "ok"
          /\ lockAC'.err = "ok"
      ]_vars

\* grant or deny of two names, one of them new to the store, which held
\* grants
C34_Witness ==
    /\ last.op \in {"grant", "deny"}
    /\ last.err = "ok"
    /\ steps = 1
    /\ Len(access.subject.val) = 2
    /\ \E s \in Elems(access.subject.val) : Store[s] = EmptyRole
    /\ \E s \in Elems(access.subject.val) : Store[s] # EmptyRole

\* C36: a commit made through an Access builder is seen by the queries on
\* the instance that follow it, also when reset() or setGrants() was called
\* after the builder was handed out: whenever an action method of a grant
\* builder commits a list of attributes, the query of the instance for each
\* subject of the builder, the resource, the action and the possession is
\* granted.
C36_CommitSeenByQueries ==
    (access.live /\ ~access.denied /\ access.subject.def) =>
        \A action \in CalledActions, p \in Possessions, x \in Resources :
            \A r \in {prepareAndCommit(action, p, Some(<<x>>), Some(<<"x">>))} :
                r.err = "ok" =>
                    \A s \in Elems(access.subject.val) :
                        \A q \in {Query(Committed(r), s, x, action, p)} :
                            q.err = "ok" /\ Granted(q.attrs)

\* the role objects a role outside the effective role set is given: none, an
\* empty one, one with a grant, one with a denial, one that inherits from S
OutsideObjects(S) ==
    {EmptyRole, Holder, RoleObject(Undefined, ReadAnyNone), RoleObject(Some(S), ReadOwnAll)}

\* the stores that agree with g on the roles of E: g without the other
\* roles, g with one other role replaced or added, and g after a grant or a
\* denial was committed to a role outside E
AgreeingOn(g, E, S) ==
    {[s \in E \cap DOMAIN g |-> g[s]]}
    \cup {Put(g, t, o) : t \in Roles \ E, o \in OutsideObjects(S)}
    \cup {commitToGrants(g, FALSE,
              [subject |-> Some(<<t>>), resource |-> Some(<<"r">>),
               attributes |-> Some(IF d THEN <<>> ELSE <<"*">>), denied |-> d,
               action |-> "read", possession |-> p]).g :
            t \in DOMAIN g \ E, d \in BOOLEAN, p \in Possessions}

\* C37: the result of a query for the subjects S depends only on the entries
\* and inheritance lists of the roles of the effective role set of S: on
\* every store that agrees with the store on those roles the query has the
\* same result, and a grant or denial committed to a role outside the set
\* does not change it.
C37_QueryReadsEffectiveRolesOnly ==
    \A S \in StoreSubjects, p \in Possessions :
        \A q \in {getUnionAttrsOfRoles(Store, S, "r", "read", p)} :
            q.err = "ok" =>
                \A g \in AgreeingOn(Store, EffectiveRoles(Store, S), S) :
                    getUnionAttrsOfRoles(g, S, "r", "read", p) = q

\* a query for b is not granted although role a, which inherits from b and
\* is outside the effective role set of b, holds a grant
C37_Witness ==
    /\ "b" \in DOMAIN Store /\ "a" \in DOMAIN Store
    /\ "b" \in InheritedBy(Store, "a")
    /\ "a" \notin EffectiveRoles(Store, <<"b">>)
    /\ Holds(Store, "a", "r", "read:any")
    /\ getUnionAttrsOfRoles(Store, <<"b">>, "r", "read", "any") = [err |-> "ok", attrs |-> <<>>]
    /\ last.op \in {"Access.action", "setGrants"}

C39_CallbackAfterCommit ==
    [][(/\ last'.op \in {"Access.action", "Access.do", "Access.extend"}
        /\ last'.err = "ok"
        /\ heap' # heap)
       => notified']_vars

\* C33: grant(...) or deny(...) called on a builder returns a new builder
\* with its own polarity; the builder it was called on keeps its subject,
\* resource and polarity, and its later action methods commit for that
\* subject with that polarity.
C33_ChainedBuilderIsNew ==
    [][/\ (last'.op \in {"Access.grant", "Access.deny"} /\ last'.err = "ok") =>
              /\ prior' = access
              /\ access'.denied = (last'.op = "Access.deny")
       /\ (last'.op = "Prior.action" /\ last'.err = "ok") =>
              /\ prior'.subject = prior.subject
              /\ prior'.denied = prior.denied
              /\ \A s \in Elems(prior.subject.val), x \in Elems(prior'.resource.val) :
                    \E k \in DOMAIN heap'[prior.ref][s].res[x] :
                        heap'[prior.ref][s].res[x][k] =
                            IF prior.denied THEN <<>> ELSE <<"*">>
      ]_vars

\* C35: a builder returned by grant(record) never commits a denial and a
\* builder returned by deny(record) never commits a grant: the builder has
\* the polarity of the call that made it, keeps it when the facade makes
\* another builder from a record (the same record object included), and its
\* action methods called without attributes store ['*'] when it was made by
\* grant and [] when it was made by deny.
C35_RecordBuilderKeepsPolarity ==
    [][/\ (last'.op \in {"grant(info)", "deny(info)"} /\ last'.err = "ok") =>
              /\ access'.denied = (last'.op = "deny(info)")
              /\ access.live => prior'.denied = access.denied
       /\ (last'.op = "Prior.action" /\ last'.err = "ok") =>
              /\ prior'.denied = prior.denied
              /\ \A s \in Elems(prior.subject.val), x \in Elems(prior'.resource.val) :
                    \A k \in DOMAIN heap'[prior.ref][s].res[x] :
                        ~(/\ s \in DOMAIN heap[prior.ref]
                          /\ x \in DOMAIN heap[prior.ref][s].res
                          /\ k \in DOMAIN heap[prior.ref][s].res[x]) =>
                            heap'[prior.ref][s].res[x][k] =
                                IF prior.denied THEN <<>> ELSE <<"*">>
      ]_vars

====
